---------------------------- MODULE Spec2Model ----------------------------
(***************************************************************************)
(* IronBee ParserSuite (modules/parser_suite.cpp) as a state machine.      *)
(*                                                                         *)
(* A buffer is a sequence of one-byte strings.  Positions are 1-based; a   *)
(* span [b |-> p, e |-> q] covers the bytes p .. q-1 (q is one past the    *)
(* end, like the end iterator of span_t).  The Spirit grammars are PEGs:   *)
(* a Kleene star is greedy and never gives back, alternatives are tried in *)
(* order, and a semantic action fires as soon as the parser it is attached *)
(* to has matched, whether or not the enclosing sequence goes on to match. *)
(* Bytes are 7-bit ASCII, the domain of the ascii encoding the grammars    *)
(* are written in.                                                         *)
(***************************************************************************)
EXTENDS Naturals, Sequences, FiniteSets, TLC

VARIABLES
    op,         \* the entry point that was called ("none" before any call)
    buf,        \* the byte buffer the caller's span refers to
    input,      \* the caller's mutable span (span_t& input)
    it,         \* the iterator qi::parse advances (begin in parse_indirect)
    pc,         \* position of the call in progress
    what,       \* errinfo_what of the failure thrown, "" when none
    R,          \* result object of the entry point (other than parse_headers)
    objs,       \* result objects of the parse_headers calls made so far
    call,       \* number of parse_headers calls made so far
    grammar_R,  \* the call whose R the function-static grammar captured, 0 = not built
    ref,        \* the object the captured reference designates in this call, 0 = none
    live,       \* the parse_headers result objects that still exist
    log         \* what the header grammar matched in this call

vars == <<op, buf, input, it, pc, what, R, objs, call, grammar_R, ref, live, log>>

----------------------------------------------------------------------------
(* Bounds of the model *)

MaxLineLen == 7
MaxReqLen  == 4
MaxHdrLen  == 7
MaxCallLen == 4
MaxCalls   == 2
MaxAuthLen == 7
MaxPathLen == 8

----------------------------------------------------------------------------
(* Bytes *)

CR == "\r"
LF == "\n"
SP == " "
HT == "\t"

LineAlphabet == {"a", SP, HT, CR, LF}
ReqAlphabet  == {"a", ":", "/", "?", "#", SP, HT, CR, LF}
HdrAlphabet  == {"a", ":", SP, CR, LF}
CallAlphabet == {"a", ":", SP, LF}
AuthAlphabet == {"a", ":", "@", SP}
PathAlphabet == {"a", "/", "."}
Separators   == {"/", "."}

Strs(A, n) == UNION {[1..k -> A] : k \in 0..n}

\* Header blocks appended to the first line in the composite parsers' inputs.
HeaderTails ==
    { <<":", "a">>,
      <<":", "a", LF, SP, "a", LF>>,
      <<LF, ":", "a">>,
      <<SP, "a">> }

NoSpan == [b |-> 0, e |-> 0]
Span(p, q) == [b |-> p, e |-> q]
Text(s, sp) == IF sp.e > sp.b THEN SubSeq(s, sp.b, sp.e - 1) ELSE <<>>
Empty(sp) == sp.b = sp.e
End(s) == Len(s) + 1

Min(S) == CHOOSE x \in S : \A y \in S : x <= y
Max(S) == CHOOSE x \in S : \A y \in S : x >= y

----------------------------------------------------------------------------
(* Primitive parsers *)

\* char_(" \t")
sp == {SP, HT}

\* *(char_ - char_(Stop)) from p: the position where the run ends
RunEnd(s, p, Stop) == Min({q \in p..End(s) : q = End(s) \/ s[q] \in Stop})

\* *char_(Set) from p: the position where the run ends
RunIn(s, p, Set) == Min({q \in p..End(s) : q = End(s) \/ s[q] \notin Set})

\* lit(c) at p
IsAt(s, p, c) == p <= Len(s) /\ s[p] = c

\* qi::eol at p: CR, LF or CR LF; 0 when it does not match
Eol(s, p) ==
    LET q == IF IsAt(s, p, CR) THEN p + 1 ELSE p
        r == IF IsAt(s, q, LF) THEN q + 1 ELSE q
    IN  IF r = p THEN 0 ELSE r

\* (eol|eoi) at p; 0 when neither matches
EolOrEoi(s, p) ==
    IF Eol(s, p) # 0 THEN Eol(s, p)
    ELSE IF p = End(s) THEN p
    ELSE 0

----------------------------------------------------------------------------
(* parse_request_line, parse_response_line *)

\* the exclusion set of word = raw[+(char_-char_(" \t\r\n"))]
WordStopNoTab == {SP, CR, LF}
WordStop == {SP, HT, CR, LF}

LineFailure == [ok |-> FALSE]

ParseRequestLine(s, p) ==
    LET p1 == RunIn(s, p, sp)
        m  == RunEnd(s, p1, WordStop)
        p2 == RunIn(s, m, sp)
        u  == RunEnd(s, p2, WordStop)
        p3 == RunIn(s, u, sp)
        v  == RunEnd(s, p3, WordStop)
        t  == EolOrEoi(s, v)
    IN  IF m = p1 \/ u = p2 \/ t = 0
        THEN LineFailure
        ELSE [ok      |-> TRUE,
              method  |-> Span(p1, m),
              uri     |-> Span(p2, u),
              version |-> IF v > p3 THEN Span(p3, v) ELSE NoSpan,
              next    |-> t]

ParseResponseLine(s, p) ==
    LET p1 == RunIn(s, p, sp)
        v  == RunEnd(s, p1, WordStop)
        p2 == RunIn(s, v, sp)
        st == RunEnd(s, p2, WordStop)
        p3 == RunIn(s, st, sp)
        m  == RunEnd(s, p3, {CR, LF})
        t  == EolOrEoi(s, m)
    IN  IF v = p1 \/ st = p2 \/ t = 0
        THEN LineFailure
        ELSE [ok      |-> TRUE,
              version |-> Span(p1, v),
              status  |-> Span(p2, st),
              message |-> Span(p3, m),
              next    |-> t]

----------------------------------------------------------------------------
(* parse_uri *)

\* char_("-A-Za-z0-9+."): the bytes of the class that the alphabets use
SchemeChars == {"-", "+", ".", "a"}

AuthorityStop == {SP, HT, "/", "?", "#", CR, LF}
PathStop      == {SP, HT, "?", "#", CR, LF}
QueryStop     == {SP, "#", CR, LF}
FragmentStopHash == {SP, "#", CR, LF}
FragmentStop  == {SP, CR, LF}

ParseUri(s, p) ==
    LET se == RunIn(s, p, SchemeChars)
        hasScheme == se > p /\ IsAt(s, se, ":")
        p1 == IF hasScheme THEN se + 1 ELSE p
        hasAuth == IsAt(s, p1, "/") /\ IsAt(s, p1 + 1, "/")
        ae == IF hasAuth THEN RunEnd(s, p1 + 2, AuthorityStop) ELSE p1
        pe == RunEnd(s, ae, PathStop)
        hasQuery == IsAt(s, pe, "?")
        qe == IF hasQuery THEN RunEnd(s, pe + 1, QueryStop) ELSE pe
        hasFrag == IsAt(s, qe, "#")
        fe == IF hasFrag THEN RunEnd(s, qe + 1, FragmentStop) ELSE qe
        t  == EolOrEoi(s, fe)
    IN  IF t = 0
        THEN [ok |-> FALSE]
        ELSE [ok        |-> TRUE,
              scheme    |-> IF hasScheme THEN Span(p, se) ELSE NoSpan,
              authority |-> IF hasAuth THEN Span(p1 + 2, ae) ELSE NoSpan,
              path      |-> Span(ae, pe),
              query     |-> IF hasQuery THEN Span(pe + 1, qe) ELSE NoSpan,
              fragment  |-> IF hasFrag THEN Span(qe + 1, fe) ELSE NoSpan,
              next      |-> t]

----------------------------------------------------------------------------
(* parse_authority *)

\* the exclusion set of word = raw[*(char_-char_("@: \t\r\n"))]
AuthStop == {"@", ":", SP, HT, CR, LF}

\* parse_authority_result_t()
NoAuthority ==
    [username |-> NoSpan, password |-> NoSpan, host |-> NoSpan, port |-> NoSpan]

set_username(A, s) == [A EXCEPT !.username = s]
set_password(A, s) == [A EXCEPT !.password = s]
set_host(A, s)     == [A EXCEPT !.host = s]
set_port(A, s)     == [A EXCEPT !.port = s]

only_host_no_reset(A, s) == set_host(A, s)
only_host(A, s) == set_host(NoAuthority, s)

ParseAuthority(s, p) ==
    LET \* first alternative; its actions fire as its parts match
        u   == RunEnd(s, p, AuthStop)
        A1  == set_username(NoAuthority, Span(p, u))
        hasPw == IsAt(s, u, ":")
        pw  == IF hasPw THEN RunEnd(s, u + 1, AuthStop) ELSE u
        A2  == IF hasPw THEN set_password(A1, Span(u + 1, pw)) ELSE A1
        hasAt == IsAt(s, pw, "@")
        h1  == RunEnd(s, pw + 1, AuthStop)
        \* second alternative, from p again, on the result the first one left
        h2  == RunEnd(s, p, AuthStop)
        A3  == IF hasAt THEN set_host(A2, Span(pw + 1, h1))
                        ELSE only_host(A2, Span(p, h2))
        q   == IF hasAt THEN h1 ELSE h2
        hasPort == IsAt(s, q, ":")
        pe  == IF hasPort THEN RunEnd(s, q + 1, AuthStop) ELSE q
        A4  == IF hasPort THEN set_port(A3, Span(q + 1, pe)) ELSE A3
    IN  [ok |-> TRUE, result |-> A4, next |-> pe]

----------------------------------------------------------------------------
(* parse_path *)

RECURSIVE DirLoop(_, _, _)
\* one iteration of (-dirsep >> dirstr >> &dirsep), no Kleene star around it
DirOnce(s, p, dsep) ==
    LET q0 == IF IsAt(s, p, dsep) THEN p + 1 ELSE p
        q1 == RunEnd(s, q0, {dsep})
    IN  IF IsAt(s, q1, dsep) THEN q1 ELSE p

\* *(-dirsep >> dirstr >> &dirsep) from p: where the repetition stops
DirLoop(s, p, dsep) ==
    LET q0 == IF IsAt(s, p, dsep) THEN p + 1 ELSE p
        q1 == RunEnd(s, q0, {dsep})
    IN  IF IsAt(s, q1, dsep) THEN DirLoop(s, q1, dsep) ELSE p

RECURSIVE ExtLoop(_, _, _)
\* *(extsep >> extstr >> &extsep) from p: where the repetition stops
ExtLoop(s, p, esep) ==
    IF IsAt(s, p, esep)
    THEN LET r == RunEnd(s, p + 1, {esep})
         IN  IF IsAt(s, r, esep) THEN ExtLoop(s, r, esep) ELSE p
    ELSE p

ParsePath(s, p, dsep, esep) ==
    LET d  == DirLoop(s, p, dsep)
        p1 == IF IsAt(s, d, dsep) THEN d + 1 ELSE d
        b  == ExtLoop(s, RunEnd(s, p1, {esep}), esep)
        hasExt == IsAt(s, b, esep)
        base == Span(p1, b)
        extension == IF hasExt THEN Span(b + 1, End(s)) ELSE NoSpan
    IN  [ok |-> TRUE,
         result |-> [directory |-> Span(p, d),
                     base      |-> base,
                     extension |-> extension,
                     file      |-> IF Empty(extension) THEN base
                                   ELSE Span(base.b, extension.e),
                     directory_separator |-> dsep,
                     extension_separator |-> esep],
         next |-> IF hasExt THEN End(s) ELSE b]

----------------------------------------------------------------------------
(* parse_headers: the grammar *)

\* parse_headers_result_t R;
NewResult == [headers |-> <<>>, terminated |-> FALSE]

\* new_header: R.headers.push_back(header_t {key, {}})
new_header(H, key) == Append(H, [key |-> key, value |-> <<>>])

\* push_value: R.headers.back().value.push_back(value); defined for Len(H) > 0
push_value(H, v) == [H EXCEPT ![Len(H)].value = Append(@, v)]

\* the exclusion set of key = raw[*(char_-char_(" \t:\r\n"))] >> omit[lit(":")]
KeyStop == {SP, HT, ":", CR, LF}

\* the exclusion set of value = raw[+(char_-char_("\r\n"))]
ValueStop == {CR, LF}

\* One attempt of `header` at p.  alt is the alternative that matched ("none"
\* when neither did); opened tells whether key [new_header] matched, which
\* happens before the rest of the first alternative is tried.
Header(s, p) ==
    LET k   == RunEnd(s, p, KeyStop)
        opened == IsAt(s, k, ":")
        v1b == RunIn(s, k + 1, sp)
        v1e == RunEnd(s, v1b, ValueStop)
        keyed == opened /\ v1e > v1b
        f   == RunIn(s, p, sp)
        v2e == RunEnd(s, f, ValueStop)
        folded == f > p /\ v2e > f
    IN  IF keyed
        THEN [alt |-> "keyed", opened |-> TRUE, key |-> Span(p, k),
              value |-> Span(v1b, v1e), next |-> EolOrEoi(s, v1e)]
        ELSE IF folded
        THEN [alt |-> "folded", opened |-> opened, key |-> Span(p, k),
              value |-> Span(f, v2e), next |-> EolOrEoi(s, v2e)]
        ELSE [alt |-> "none", opened |-> opened, key |-> Span(p, k),
              value |-> NoSpan, next |-> p]

\* terminator = *sp >> eol at p; 0 when it does not match
Terminator(s, p) == Eol(s, RunIn(s, p, sp))

\* what a fresh log of a parse_headers call holds
NoLog == [lines |-> <<>>, term |-> FALSE]

\* The outcomes of push_value on an R with no header (back() of an empty
\* container): the process dies, or the write lands outside any entry and
\* the parse goes on.
UBOutcomes == {"crashed", "survives"}

----------------------------------------------------------------------------
(* State *)

NoResult == [none |-> TRUE]

Init ==
    /\ op = "none"
    /\ buf = <<>>
    /\ input = Span(1, 1)
    /\ it = 1
    /\ pc = "idle"
    /\ what = ""
    /\ R = NoResult
    /\ objs = <<>>
    /\ call = 0
    /\ grammar_R = 0
    /\ ref = 0
    /\ live = {}
    /\ log = NoLog

headerVars == <<it, objs, call, grammar_R, ref, live, log>>

\* parse_direct / parse_indirect: throw "Incomplete <name>." and leave input
\* alone on failure, else input = span_t(begin, end)
Outcome(name, s, r) ==
    /\ buf' = s
    /\ input' = Span(IF r.ok THEN r.next ELSE 1, End(s))
    /\ pc' = IF r.ok THEN "done" ELSE "failed"
    /\ what' = IF r.ok THEN "" ELSE "Incomplete " \o name \o "."

----------------------------------------------------------------------------
(* Entry points that are one qi::parse *)

parse_request_line(S) ==
    /\ pc = "idle"
    /\ \E s \in S :
         LET r == ParseRequestLine(s, 1)
         IN  /\ Outcome("request line", s, r)
             /\ R' = IF r.ok
                     THEN [method |-> r.method, uri |-> r.uri, version |-> r.version]
                     ELSE NoResult
    /\ op' = "parse_request_line"
    /\ UNCHANGED headerVars

parse_authority(S) ==
    /\ pc = "idle"
    /\ \E s \in S :
         LET r == ParseAuthority(s, 1)
         IN  /\ Outcome("authority", s, r)
             /\ R' = r.result
    /\ op' = "parse_authority"
    /\ UNCHANGED headerVars

parse_path(S) ==
    /\ pc = "idle"
    /\ \E s \in S, directory_separator \in Separators,
          extension_separator \in Separators :
         LET r == ParsePath(s, 1, directory_separator, extension_separator)
         IN  /\ Outcome("path", s, r)
             /\ R' = r.result
    /\ op' = "parse_path"
    /\ UNCHANGED headerVars

----------------------------------------------------------------------------
(* parse_headers *)

\* What the reference to R held by the function-static grammar designates in
\* call n.  The grammar is built once, in the first call, around that call's
\* R.  In a later call the reference is to the first call's R: that object
\* if it still exists, else whatever now lies at its address: the new call's
\* R, or nothing that can be written to.
Referents(n) ==
    IF grammar_R = 0 THEN {n}
    ELSE {0, n} \cup ({grammar_R} \cap live)

\* Entry of parse_headers with the input span beginning at p: R is
\* constructed, the static grammar is built if this is the first call.
EnterHeaders(p) ==
    /\ call' = call + 1
    /\ objs' = Append(objs, NewResult)
    /\ live' = live \cup {call + 1}
    /\ grammar_R' = IF grammar_R = 0 THEN call + 1 ELSE grammar_R
    /\ ref' \in Referents(call + 1)
    /\ it' = p
    /\ log' = NoLog
    /\ pc' = "header"

parse_headers(S, maxCalls) ==
    /\ pc \in {"idle", "done", "failed"}
    /\ op \in {"none", "parse_headers"}
    /\ call < maxCalls
    /\ \E s \in S :
         /\ buf' = s
         /\ input' = Span(1, End(s))
    /\ EnterHeaders(1)
    /\ op' = "parse_headers"
    /\ what' = ""
    /\ UNCHANGED R

Crash ==
    /\ pc' = "crashed"
    /\ UNCHANGED <<op, buf, input, it, what, R, objs, call, grammar_R, ref, live, log>>

Logged(h) == [kind |-> h.alt, key |-> h.key, value |-> h.value]

\* +header, an iteration in which the first alternative matches
HeaderKeyed ==
    /\ pc = "header"
    /\ LET h == Header(buf, it)
       IN  /\ h.alt = "keyed"
           /\ IF ref = 0
              THEN Crash
              ELSE /\ objs' = [objs EXCEPT
                         ![ref].headers = push_value(new_header(@, h.key), h.value)]
                   /\ it' = h.next
                   /\ log' = [log EXCEPT !.lines = Append(@, Logged(h))]
                   /\ UNCHANGED <<op, buf, input, pc, what, R, call, grammar_R, ref, live>>

\* +header, an iteration in which the second alternative matches
HeaderFolded ==
    /\ pc = "header"
    /\ LET h == Header(buf, it)
       IN  /\ h.alt = "folded"
           /\ ref # 0 => Len(objs[ref].headers) > 0
           /\ IF ref = 0
              THEN Crash
              ELSE /\ objs' = [objs EXCEPT ![ref].headers = push_value(@, h.value)]
                   /\ it' = h.next
                   /\ log' = [log EXCEPT !.lines = Append(@, Logged(h))]
                   /\ UNCHANGED <<op, buf, input, pc, what, R, call, grammar_R, ref, live>>

\* +header, the second alternative's push_value when R has no header yet
HeaderFoldedUB ==
    /\ pc = "header"
    /\ LET h == Header(buf, it)
       IN  /\ h.alt = "folded"
           /\ ref # 0
           /\ Len(objs[ref].headers) = 0
           /\ \E outcome \in UBOutcomes :
                IF outcome = "crashed"
                THEN Crash
                ELSE /\ it' = h.next
                     /\ log' = [log EXCEPT !.lines = Append(@, Logged(h))]
                     /\ UNCHANGED <<op, buf, input, pc, what, R, objs, call,
                                    grammar_R, ref, live>>

\* +header stops (no alternative matches at it), then -terminator [...],
\* then parse_indirect throws or sets input, and parse_headers returns R
HeadersEnd ==
    /\ pc = "header"
    /\ LET h == Header(buf, it)
           t == Terminator(buf, it)
           matched == Len(log.lines) > 0
           fires == h.opened \/ (matched /\ t # 0)
           H1 == IF h.opened
                 THEN [objs EXCEPT ![ref].headers = new_header(@, h.key)]
                 ELSE objs
       IN  /\ h.alt = "none"
           /\ IF ref = 0 /\ fires
              THEN Crash
              ELSE IF ~matched
              THEN /\ pc' = "failed"
                   /\ what' = "Incomplete headers."
                   /\ objs' = H1
                   /\ live' = live \ {call}
                   /\ UNCHANGED <<op, buf, input, it, R, call, grammar_R, ref, log>>
              ELSE /\ pc' = "done"
                   /\ objs' = IF t # 0 THEN [H1 EXCEPT ![ref].terminated = TRUE] ELSE H1
                   /\ input' = Span(IF t # 0 THEN t ELSE it, End(buf))
                   /\ it' = IF t # 0 THEN t ELSE it
                   /\ log' = [log EXCEPT !.term = (t # 0)]
                   /\ UNCHANGED <<op, buf, what, R, call, grammar_R, ref, live>>

----------------------------------------------------------------------------
(* parse_request, parse_response *)

Shift(s, d) == IF s = NoSpan THEN NoSpan ELSE Span(s.b + d, s.e + d)

\* span_t(begin, input.begin() - 1)
RawLine(begin, next) == Span(begin, next - 1)

\* parse_request up to and including raw_request_line
parse_request(S) ==
    /\ pc = "idle"
    /\ \E line \in S, tail \in HeaderTails :
         LET s == line \o tail
             r == ParseRequestLine(s, 1)
         IN  /\ buf' = s
             /\ input' = Span(IF r.ok THEN r.next ELSE 1, End(s))
             /\ pc' = IF r.ok THEN "uri" ELSE "failed"
             /\ what' = IF r.ok THEN "" ELSE "Incomplete request line."
             /\ R' = IF r.ok
                     THEN [raw_request_line |-> RawLine(1, r.next),
                           request_line |-> [method |-> r.method, uri |-> r.uri,
                                             version |-> r.version],
                           uri |-> NoResult,
                           headers |-> NoResult]
                     ELSE NoResult
    /\ op' = "parse_request"
    /\ UNCHANGED headerVars

\* parse_request: parse_uri on a copy of the uri span, the check that the
\* copy is empty, then the call of parse_headers
RequestUri ==
    /\ pc = "uri"
    /\ LET uri  == R.request_line.uri
           text == Text(buf, uri)
           U    == ParseUri(text, 1)
           rest == IF U.ok THEN Span(U.next, End(text)) ELSE Span(1, End(text))
       IN  IF ~U.ok \/ ~Empty(rest)
           THEN /\ pc' = "failed"
                /\ what' = IF ~U.ok THEN "Incomplete URI." ELSE "URI not fully parsed."
                /\ UNCHANGED <<R, it, objs, call, grammar_R, ref, live, log>>
           ELSE /\ R' = [R EXCEPT !.uri =
                          [scheme    |-> Shift(U.scheme, uri.b - 1),
                           authority |-> Shift(U.authority, uri.b - 1),
                           path      |-> Shift(U.path, uri.b - 1),
                           query     |-> Shift(U.query, uri.b - 1),
                           fragment  |-> Shift(U.fragment, uri.b - 1)]]
                /\ what' = ""
                /\ EnterHeaders(input.b)
    /\ UNCHANGED <<op, buf, input>>

\* parse_response up to the call of parse_headers
parse_response(S) ==
    /\ pc = "idle"
    /\ \E line \in S, tail \in HeaderTails :
         LET s == line \o tail
             r == ParseResponseLine(s, 1)
         IN  /\ buf' = s
             /\ input' = Span(IF r.ok THEN r.next ELSE 1, End(s))
             /\ what' = IF r.ok THEN "" ELSE "Incomplete response line."
             /\ R' = IF r.ok
                     THEN [raw_response_line |-> RawLine(1, r.next),
                           response_line |-> [version |-> r.version, status |-> r.status,
                                              message |-> r.message],
                           headers |-> NoResult]
                     ELSE NoResult
             /\ IF r.ok
                THEN EnterHeaders(r.next)
                ELSE /\ pc' = "failed"
                     /\ UNCHANGED headerVars
    /\ op' = "parse_response"

\* R.headers = parse_headers(input); return move(R);
ReturnComposite ==
    /\ pc = "done"
    /\ op \in {"parse_request", "parse_response"}
    /\ R' = [R EXCEPT !.headers = objs[call]]
    /\ pc' = "returned"
    /\ UNCHANGED <<op, buf, input, it, what, objs, call, grammar_R, ref, live, log>>

----------------------------------------------------------------------------
(* Specifications *)

\* parse_request_line on every line of up to MaxLineLen bytes
NextLine == parse_request_line(Strs(LineAlphabet, MaxLineLen))
SpecLine == Init /\ [][NextLine]_vars

\* parse_authority on every text of up to MaxAuthLen bytes
NextAuthority == parse_authority(Strs(AuthAlphabet, MaxAuthLen))
SpecAuthority == Init /\ [][NextAuthority]_vars

\* parse_path on every path of up to MaxPathLen bytes
NextPath == parse_path(Strs(PathAlphabet, MaxPathLen))
SpecPath == Init /\ [][NextPath]_vars

\* the first parse_headers call of a process, on every input of up to
\* MaxHdrLen bytes
NextHeaders ==
    \/ parse_headers(Strs(HdrAlphabet, MaxHdrLen), 1)
    \/ HeaderKeyed
    \/ HeaderFolded
    \/ HeaderFoldedUB
    \/ HeadersEnd
SpecHeaders == Init /\ [][NextHeaders]_vars

\* up to MaxCalls parse_headers calls in one process
NextCalls ==
    \/ parse_headers(Strs(CallAlphabet, MaxCallLen), MaxCalls)
    \/ HeaderKeyed
    \/ HeaderFolded
    \/ HeaderFoldedUB
    \/ HeadersEnd
SpecCalls == Init /\ [][NextCalls]_vars

\* one parse_request or parse_response call, the first use of parse_headers
\* in the process
NextRequest ==
    \/ parse_request(Strs(ReqAlphabet, MaxReqLen))
    \/ RequestUri
    \/ parse_response(Strs(ReqAlphabet, MaxReqLen))
    \/ HeaderKeyed
    \/ HeaderFolded
    \/ HeaderFoldedUB
    \/ HeadersEnd
    \/ ReturnComposite
SpecRequest == Init /\ [][NextRequest]_vars

----------------------------------------------------------------------------
(* Claims about parse_request_line *)

C1_White == {SP, HT}
C1_Break == {CR, LF}

\* bytes a .. b-1 of buf form a word: none is space, tab, CR or LF
C1_Word(a, b) == \A k \in a..(b - 1) : buf[k] \notin (C1_White \cup C1_Break)

\* bytes a .. b-1 of buf are horizontal whitespace
C1_Blank(a, b) == \A k \in a..(b - 1) : buf[k] \in C1_White

\* the line ends at p: a line terminator or the end of the input
C1_Ends(p) == p = End(buf) \/ buf[p] \in C1_Break

\* the position just after the line terminator that begins at p
C1_After(p) ==
    IF p = End(buf) THEN p
    ELSE IF buf[p] = CR /\ IsAt(buf, p + 1, LF) THEN p + 2
    ELSE p + 1

C1_Returns(method, uri, version, after) ==
    /\ pc = "done"
    /\ R.method = method
    /\ R.uri = uri
    /\ IF version = NoSpan THEN Empty(R.version) ELSE R.version = version
    /\ input = Span(after, End(buf))

\* C1: a line made of a method word, a URI word and an optional version word,
\* separated by horizontal whitespace and ended by a line terminator or the
\* end of the input, parses: the three spans are exactly the tokens (version
\* empty when absent) and input begins just after the line terminator.
C1_RequestLine ==
    (op = "parse_request_line") =>
        \A a \in 2..End(buf) : C1_Word(1, a) =>
        \A b \in (a + 1)..End(buf) : C1_Blank(a, b) =>
        \A c \in (b + 1)..End(buf) : C1_Word(b, c) =>
            /\ C1_Ends(c) => C1_Returns(Span(1, a), Span(b, c), NoSpan, C1_After(c))
            /\ \A d \in (c + 1)..End(buf) : C1_Blank(c, d) =>
               \A e \in (d + 1)..End(buf) : (C1_Word(d, e) /\ C1_Ends(e)) =>
                   C1_Returns(Span(1, a), Span(b, c), Span(d, e), C1_After(e))

\* a three-word line ended by a line terminator has been parsed
C1_Witness ==
    /\ op = "parse_request_line"
    /\ pc = "done"
    /\ R.method.b = 1
    /\ ~Empty(R.version)
    /\ buf[Len(buf)] \in C1_Break
    /\ input.b = End(buf)

----------------------------------------------------------------------------
(* Claims about parse_request and parse_response *)

C8_Raw == IF op = "parse_request" THEN R.raw_request_line ELSE R.raw_response_line

\* C8: after a successful parse_request or parse_response the raw line is the
\* first line without its line terminator: from the start of the input to
\* the first CR or LF, whichever of CR LF, LF or CR ended the line.
C8_RawLine ==
    (op \in {"parse_request", "parse_response"} /\ pc = "returned") =>
        C8_Raw = Span(1, Min({q \in 1..End(buf) : q = End(buf) \/ buf[q] \in {CR, LF}}))

C10_White == {SP, HT, CR, LF}

\* C10: once parse_request_line has succeeded inside parse_request, the uri
\* field is a non-empty run without space, tab, CR or LF, parse_uri on its
\* copy neither fails nor leaves bytes, and parse_request goes on to
\* parse_headers.
C10_UriFullyParsed ==
    (op = "parse_request" /\ R # NoResult) =>
        /\ ~Empty(R.request_line.uri)
        /\ \A k \in R.request_line.uri.b..(R.request_line.uri.e - 1) :
               buf[k] \notin C10_White
        /\ what \notin {"Incomplete URI.", "URI not fully parsed."}
        /\ pc # "uri" => (call = 1 /\ R.uri # NoResult)

\* parse_request has passed the URI check on a uri with a scheme-less path,
\* a query and a non-empty fragment
C10_Witness ==
    /\ op = "parse_request"
    /\ pc = "header"
    /\ R.uri.query # NoSpan
    /\ ~Empty(R.uri.fragment)
    /\ R.uri.fragment.e = R.request_line.uri.e

----------------------------------------------------------------------------
(* Claims about parse_authority *)

C6_Stop == {"@", ":", SP, HT, CR, LF}
C6_Run(p) == Min({q \in p..End(buf) : q = End(buf) \/ buf[q] \in C6_Stop})
C6_Ats == {i \in 1..Len(buf) : buf[i] = "@"}
C6_Colons == {i \in 1..Len(buf) : buf[i] = ":"}

\* the result of the userinfo branch around the first '@'
C6_UserinfoResult ==
    LET at == Min(C6_Ats)
        before == {i \in C6_Colons : i < at}
        user == Span(1, C6_Run(1))
    IN  /\ R.username = user
        /\ IF before = {} THEN Empty(R.password)
           ELSE R.password = Span(user.e + 1, at)
        /\ R.host = Span(at + 1, C6_Run(at + 1))

\* the result of the host-only branch
C6_HostOnlyResult ==
    /\ Empty(R.username)
    /\ Empty(R.password)
    /\ R.host = Span(1, C6_Run(1))

\* C6 as stated, on authority texts free of whitespace: an '@' anywhere in
\* the input selects the userinfo branch, however many ':' precede it;
\* without '@' the host-only branch is taken and port is the run after the
\* first ':'.
C6_AtAloneDecides ==
    (/\ op = "parse_authority" /\ pc = "done"
     /\ \A k \in 1..Len(buf) : buf[k] \notin {SP, HT, CR, LF}) =>
        IF C6_Ats # {}
        THEN C6_UserinfoResult
        ELSE /\ C6_HostOnlyResult
             /\ C6_Colons # {} =>
                    R.port = Span(Min(C6_Colons) + 1, C6_Run(Min(C6_Colons) + 1))

\* the input begins [username][:password]@ : the first '@' is preceded only
\* by bytes other than space, tab, CR, LF, with at most one ':' among them
C6_UserinfoPrefix ==
    /\ C6_Ats # {}
    /\ \A k \in 1..(Min(C6_Ats) - 1) : buf[k] \notin {SP, HT, CR, LF}
    /\ Cardinality({i \in C6_Colons : i < Min(C6_Ats)}) <= 1

\* C6 amended: the userinfo branch is taken exactly when the input begins
\* [username][:password]@; otherwise (no '@', two or more ':' before it, or
\* whitespace before it) the host-only branch is taken with username and
\* password empty and host the leading run.  In both branches port is the
\* run after a ':' that immediately follows host, and empty otherwise.
C6_BranchChoice ==
    (op = "parse_authority" /\ pc = "done") =>
        /\ IF C6_UserinfoPrefix THEN C6_UserinfoResult ELSE C6_HostOnlyResult
        /\ IF IsAt(buf, R.host.e, ":")
           THEN R.port = Span(R.host.e + 1, C6_Run(R.host.e + 1))
           ELSE Empty(R.port)
        /\ input = Span(IF IsAt(buf, R.host.e, ":") THEN R.port.e ELSE R.host.e,
                        End(buf))

\* an input with an '@' behind two ':' has been parsed by the host-only
\* branch, after the first branch had set username and password
C6_Witness ==
    /\ op = "parse_authority"
    /\ pc = "done"
    /\ C6_Ats # {}
    /\ ~C6_UserinfoPrefix
    /\ Cardinality({i \in C6_Colons : i < Min(C6_Ats)}) = 2
    /\ ~Empty(R.host)
    /\ ~Empty(R.port)

----------------------------------------------------------------------------
(* Claims about parse_path *)

C7_Seps == {i \in 1..Len(buf) : buf[i] = R.directory_separator}

\* C7 as stated, for two distinct separators: directory runs from the start
\* of the input up to and including the last directory separator, and is
\* empty without one.
C7_DirectoryThroughLastSep ==
    (/\ op = "parse_path" /\ pc = "done"
     /\ R.directory_separator # R.extension_separator) =>
        IF C7_Seps = {} THEN Empty(R.directory)
        ELSE R.directory = Span(1, Max(C7_Seps) + 1)

\* C7 amended: directory runs from the start of the input up to but not
\* including the last directory separator (the grammar consumes that
\* separator outside the directory span), and is empty without one.
C7_DirectoryBeforeLastSep ==
    (op = "parse_path" /\ pc = "done") =>
        IF C7_Seps = {} THEN Empty(R.directory)
        ELSE R.directory = Span(1, Max(C7_Seps))

\* a path with several directory separators and an extension has been parsed
C7_Witness ==
    /\ op = "parse_path"
    /\ pc = "done"
    /\ R.directory_separator = "/"
    /\ R.extension_separator = "."
    /\ Cardinality(C7_Seps) >= 2
    /\ R.directory.e - R.directory.b >= 2
    /\ ~Empty(R.base)
    /\ ~Empty(R.extension)

----------------------------------------------------------------------------
(* Claims about parse_headers *)

\* the header block of the call in progress, as the caller receives it
Returned == objs[call]

\* the first line matched in this call, if any, was a keyed line
KeyedFirst == log.lines = <<>> \/ log.lines[1].kind = "keyed"

RECURSIVE C2_Entries(_)
\* the entries the matched lines stand for: one per keyed line, holding its
\* value and then the values of the folded lines that follow it, in order
C2_Entries(lines) ==
    IF lines = <<>> THEN <<>>
    ELSE LET n == Len(lines)
             before == C2_Entries(SubSeq(lines, 1, n - 1))
             last == lines[n]
         IN  IF last.kind = "keyed"
             THEN Append(before, [key |-> last.key, value |-> <<last.value>>])
             ELSE [before EXCEPT ![Len(before)].value = Append(@, last.value)]

\* C2: a folded line that follows a keyed line opens no entry, whatever its
\* content; its value is appended to the entry opened last, so that the
\* entries are exactly the keyed lines parsed, each with its folded values.
C2_FoldedLinesOpenNoEntry ==
    (/\ op = "parse_headers" /\ pc = "done" /\ KeyedFirst
     /\ \E i \in 1..Len(log.lines) : log.lines[i].kind = "folded") =>
        Returned.headers = C2_Entries(log.lines)

\* C3: in the block a successful call returns, terminated is true exactly
\* when the blank-line terminator was consumed after the last header line.
C3_TerminatedIffTerminator ==
    (op = "parse_headers" /\ pc = "done" /\ KeyedFirst) =>
        (Returned.terminated <=> log.term)

\* C4: every entry of the block a successful call returns has at least one
\* value.
C4_ValuesNonEmpty ==
    (op = "parse_headers" /\ pc = "done" /\ KeyedFirst) =>
        \A i \in 1..Len(Returned.headers) : Len(Returned.headers[i].value) > 0

\* the input begins with a folded line: space or tab bytes, then a value
C5_FoldedFirst ==
    /\ buf # <<>>
    /\ buf[1] \in {SP, HT}
    /\ \E q \in 2..Len(buf) :
          /\ \A k \in 1..(q - 1) : buf[k] \in {SP, HT}
          /\ buf[q] \notin {SP, HT, CR, LF}

\* C5: when the first line of the input is a folded line, parse_headers
\* fails with "Incomplete headers." : once past the beginning of the input
\* the call is in no other state.
C5_FoldedFirstFails ==
    (op = "parse_headers" /\ call = 1 /\ C5_FoldedFirst /\ (pc # "header" \/ it > 1)) =>
        (pc = "failed" /\ what = "Incomplete headers.")

RECURSIVE C9_Own(_)
\* what new_header and push_value build from the lines of this call when
\* they act on this call's own, fresh R
C9_Own(lines) ==
    IF lines = <<>> THEN NewResult.headers
    ELSE LET n == Len(lines)
             before == C9_Own(SubSeq(lines, 1, n - 1))
         IN  IF lines[n].kind = "keyed"
             THEN push_value(new_header(before, lines[n].key), lines[n].value)
             ELSE push_value(before, lines[n].value)

\* C9: a parse_headers call writes to no result object of an earlier call,
\* and the block it returns holds what its own input determines: the entries
\* of its own lines and its own terminated flag, as in a first call.
C9_ResultLocalToCall ==
    [][ /\ \A k \in 1..Len(objs) : k # call' => objs'[k] = objs[k]
        /\ (pc' = "done" /\ log'.lines[1].kind = "keyed"
              /\ Header(buf', it').opened = FALSE) =>
               /\ objs'[call'].headers = C9_Own(log'.lines)
               /\ objs'[call'].terminated = log'.term ]_vars

=============================================================================
